---- MODULE Spec2Model ----
(***************************************************************************)
(* The confirmation-gated action pipeline of App.tsx (Ava, AI concierge):  *)
(* the component state, the handlers sendMessage, handleConfirm,           *)
(* handleCancel, handleToggleTaskCompletion, the task edit dialog, the     *)
(* goal status update and the two reminder effects, as one state machine.  *)
(* A handler's synchronous part is one action; each awaited oracle call is *)
(* a record in `inflight`, resolved by a later action.  React applies the  *)
(* functional updates of a step to the latest state and then runs the      *)
(* effects whose dependencies changed, so every action ends with Effects.  *)
(***************************************************************************)
EXTENDS Integers, Sequences, FiniteSets

\* ---------------------------------------------------------------- bounds
\* Accepted sendMessage calls (each is one oracle call and one intent id).
MaxSends == 2
\* handleToggleTaskCompletion calls that find their task.
MaxToggles == 1
\* Largest value of the millisecond clock Date.now().
MaxClock == 2
\* Largest value of the calendar day.
MaxDay == 1
\* Edit dialog saves and goal status updates.
MaxEdits == 1
MaxStatusUpdates == 1
\* Records of one kind found in localStorage at mount (reminder scans).
MaxStored == 2

\* ------------------------------------------------------- program constants
\* getUpcomingDueDates / getUpcomingGoalReminders: daysThreshold = 7.
DaysThreshold == 7

\* An absent or empty date ('' or undefined: both falsy in the code).
NoDate == -1

\* useState(null) for the three pending fields and editingTask.
NullDetails == [nil |-> TRUE]
NullType == "null"
NullCall == [nil |-> TRUE]

VARIABLES
  messages,                \* useState<Message[]>
  loading,                 \* useState<boolean>
  calendarEvents,          \* useState<CalendarEvent[]>
  recurringTasks,          \* useState<RecurringTask[]>
  paymentHistory,          \* useState<PaymentDetail[]>
  goals,                   \* useState<Goal[]>
  showConfirmationDialog,  \* useState(false)
  pendingActionDetails,    \* draft record or NullDetails
  pendingActionType,       \* 'event' | 'task' | 'payment' | 'goal' | 'confirmTaskCompletion' | null
  pendingFunctionCall,     \* the oracle's function call, the toggle's dummy, or NullCall
  editingTask,             \* useState<RecurringTask | null>
  chatSession,             \* chatSessionRef.current is non-null
  utcOffset,               \* the host's time zone: local time minus UTC, in hours
  storage,                 \* localStorage: the four slots the save functions write
  storageFull,             \* localStorage.setItem currently throws (quota exceeded)
  now,                     \* Date.now()
  today,                   \* the calendar day of new Date()
  inflight,                \* the awaited oracle calls, one record each
  functionResults,         \* the functionResponse messages the oracle has been sent
  intents,                 \* the recognized function calls the oracle has returned
  nSends, nToggles, nEdits, nStatus,  \* how often the bounded operations ran
  op                       \* the step that led to this state

vars == <<messages, loading, calendarEvents, recurringTasks, paymentHistory, goals,
          showConfirmationDialog, pendingActionDetails, pendingActionType,
          pendingFunctionCall, editingTask, chatSession, utcOffset, storage, storageFull, now, today, inflight,
          functionResults, intents, nSends, nToggles, nEdits, nStatus, op>>

\* ---------------------------------------------------------------- helpers
\* Number.prototype.toString: the decimal digits, most significant first.
RECURSIVE DecimalString(_)
DecimalString(n) ==
  IF n < 10 THEN <<n>> ELSE Append(DecimalString(n \div 10), n % 10)

\* The temporary id '' of a draft.
EmptyId == <<>>

AI(c) == [role |-> "ai", content |-> c]
User(t) == [role |-> "user", content |-> [tpl |-> "user", text |-> t]]

\* function declaration names of services/geminiService.ts
createCalendarEventName == "createCalendarEvent"
createRecurringTaskName == "createRecurringTask"
payBillName == "payBill"
createGoalName == "createGoal"

\* ------------------------------------------------------- reminder scanner
\* Instants are hours since the epoch's UTC midnight; dates are day numbers.
HoursPerDay == 24

\* new Date('YYYY-MM-DD'): a date-only string is UTC midnight of that date.
ParseDate(date) == date * HoursPerDay

\* d.setHours(0, 0, 0, 0): midnight, in the host's zone, of the local day d is in.
StartOfLocalDay(instant) ==
  ((instant + utcOffset) \div HoursPerDay) * HoursPerDay - utcOffset

\* new Date() on local calendar day `day`, then setHours(0, 0, 0, 0).
StartOfToday(day) == day * HoursPerDay - utcOffset

\* Math.ceil(timeDiff / (1000 * 60 * 60 * 24))
CeilDays(timeDiff) == -((-timeDiff) \div HoursPerDay)

\* getUpcomingDueDates(tasks, daysThreshold) on local calendar day `day`.
TaskIsUpcoming(task, daysThreshold, day) ==
  /\ ~task.completed
  /\ task.dueDate # NoDate
  /\ LET dueDate == StartOfLocalDay(ParseDate(task.dueDate))
         daysDiff == CeilDays(dueDate - StartOfToday(day))
     IN \/ (daysDiff >= 0 /\ daysDiff <= daysThreshold)
        \/ /\ daysDiff < 0
           /\ \/ task.lastExecutionDate = NoDate
              \/ ParseDate(task.lastExecutionDate) < dueDate

getUpcomingDueDates(tasks, daysThreshold, day) ==
  SelectSeq(tasks, LAMBDA t : TaskIsUpcoming(t, daysThreshold, day))

\* getUpcomingGoalReminders(goals, daysThreshold) on local calendar day `day`.
GoalNeedsReminder(goal, daysThreshold, day) ==
  /\ goal.status \notin {"completed", "cancelled"}
  /\ LET targetDate == StartOfLocalDay(ParseDate(goal.targetDate))
         daysDiff == CeilDays(targetDate - StartOfToday(day))
     IN (daysDiff >= 0 /\ daysDiff <= daysThreshold) \/ daysDiff < 0

getUpcomingGoalReminders(gs, daysThreshold, day) ==
  SelectSeq(gs, LAMBDA g : GoalNeedsReminder(g, daysThreshold, day))

TaskReminderText(task) ==
  [tpl |-> "taskReminder", title |-> task.title, dueDate |-> task.dueDate]

GoalReminderText(goal) ==
  [tpl |-> "goalReminder", title |-> goal.title,
   approaching |-> (goal.status = "in-progress"), targetDate |-> goal.targetDate]

InLog(msgs, c) == \E i \in 1..Len(msgs) : msgs[i].content = c

MapSeq(s, F(_)) == [i \in 1..Len(s) |-> F(s[i])]

\* checkAndPostReminders with the rendered `msgs`: the messages it appends.
checkAndPostReminders(msgs, tasks, day) ==
  IF Len(tasks) = 0 THEN <<>>
  ELSE LET upcoming == getUpcomingDueDates(tasks, DaysThreshold, day)
           reminderMessages == MapSeq(upcoming, TaskReminderText)
           newReminders == SelectSeq(reminderMessages, LAMBDA c : ~InLog(msgs, c))
       IN MapSeq(newReminders, AI)

\* checkAndPostGoalReminders with the rendered `msgs`: the messages it appends.
checkAndPostGoalReminders(msgs, gs, day) ==
  IF Len(gs) = 0 THEN <<>>
  ELSE LET upcoming == getUpcomingGoalReminders(gs, DaysThreshold, day)
           reminderMessages == MapSeq(upcoming, GoalReminderText)
           newReminders == SelectSeq(reminderMessages, LAMBDA c : ~InLog(msgs, c))
       IN MapSeq(newReminders, AI)

\* Mutant: the scans call setMessages with the new reminders alone.
Effects_replacesLog(msgs, tasks, gs, day, runTasks, runGoals) ==
  LET addT == IF runTasks THEN checkAndPostReminders(msgs, tasks, day) ELSE <<>>
      addG == IF runGoals THEN checkAndPostGoalReminders(msgs, gs, day) ELSE <<>>
  IN IF addT \o addG = <<>> THEN msgs ELSE addT \o addG

\* The effects React runs after a commit: the task effect when recurringTasks
\* or messages changed, the goal effect when goals or messages changed, both
\* reading the messages of that render; repeated while messages change.
RECURSIVE Effects(_, _, _, _, _, _)
Effects(msgs, tasks, gs, day, runTasks, runGoals) ==
  LET addT == IF runTasks THEN checkAndPostReminders(msgs, tasks, day) ELSE <<>>
      addG == IF runGoals THEN checkAndPostGoalReminders(msgs, gs, day) ELSE <<>>
      next == msgs \o addT \o addG
  IN IF next = msgs THEN msgs ELSE Effects(next, tasks, gs, day, TRUE, TRUE)

\* messages after a step that left `msgs`, `tasks`, `gs` (tasksSet, goalsSet:
\* the step called setRecurringTasks, setGoals).
AfterRender(msgs, tasks, gs, tasksSet, goalsSet) ==
  Effects(msgs, tasks, gs, today,
          tasksSet \/ msgs # messages, goalsSet \/ msgs # messages)

\* ------------------------------------------------------------ the oracle
\* The arguments the oracle may put in a function call.
EventArgs == {[title |-> "Dentist", date |-> 1, time |-> "09:00"]}
TaskArgs == {[title |-> "Water plants", recurrence |-> "weekly", dueDate |-> d] :
               d \in {NoDate, 1}}
PayArgs == {[biller |-> "Acme Power", amount |-> 42, dueDate |-> 1]}
GoalArgs == {[title |-> "Run 10k", description |-> "", targetDate |-> 1],
             [title |-> "Run 10k", description |-> "", targetDate |-> 1,
              progress |-> 50, status |-> "completed"]}
OtherArgs == {[query |-> "weather"]}

ArgsOf(name) ==
  CASE name = createCalendarEventName -> EventArgs
    [] name = createRecurringTaskName -> TaskArgs
    [] name = payBillName -> PayArgs
    [] name = createGoalName -> GoalArgs
    [] OTHER -> OtherArgs

FunctionNames == {createCalendarEventName, createRecurringTaskName, payBillName,
                  createGoalName, "searchWeb"}
RecognizedNames == {createCalendarEventName, createRecurringTaskName, payBillName,
                    createGoalName}

\* What generateContent resolves to: a throw, a text (possibly empty), or
\* functionCalls[0].
SendResponses ==
  {[type |-> "error"]}
    \cup {[type |-> "text", text |-> t] : t \in {"", "Sure."}}
    \cup UNION {{[type |-> "fc", name |-> nm, args |-> a] : a \in ArgsOf(nm)} :
                  nm \in FunctionNames}

\* What a functionResponse follow-up resolves to.
FollowUpResponses ==
  {[type |-> "error"]} \cup {[type |-> "text", text |-> t] : t \in {"", "Done."}}

\* The texts the user may submit ("" stands for any text that trims to '').
Texts == {"", "hi"}

Op(name, kind, awaits) == [name |-> name, kind |-> kind, awaits |-> awaits]

\* ------------------------------------------------------------ what the UI allows
\* The edit dialog is a fixed inset-0 overlay: the page behind it takes no click.
EditOverlayShown == editingTask # NullDetails
\* The confirmation dialog is modal in the same way.
ConfirmationDialogModal == showConfirmationDialog
BackgroundInteractive == ~EditOverlayShown /\ ~ConfirmationDialogModal
\* Mutant: the input and the Send button are disabled by loading alone.
InputEnabled_loadingOnly == ~loading /\ ~EditOverlayShown

\* disabled={loading || showConfirmationDialog} on the input and the Send button.
InputEnabled == ~(loading \/ showConfirmationDialog) /\ BackgroundInteractive

\* ------------------------------------------------------------------ Init
Welcome == AI([tpl |-> "welcome"])

\* ------------------------------------------------------------ localStorage
\* Mutant: a write that fails leaves the slot empty.
setItem_truncates(slotValue, serialized) ==
  IF storageFull THEN <<>> ELSE serialized

\* try { localStorage.setItem(KEY, serialized) } catch (error) { console.error }:
\* the slot takes the new value, or setItem throws and the slot keeps its own.
setItem(slotValue, serialized) ==
  IF storageFull THEN slotValue ELSE serialized

\* JSON.stringify of a collection: every record in order, without the
\* properties whose value is undefined (a task's absent dueDate).
Stringify(coll) ==
  [i \in 1..Len(coll) |->
     [f \in {g \in DOMAIN coll[i] : ~(g = "dueDate" /\ coll[i][g] = NoDate)} |->
        coll[i][f]]]

\* The four save effects after a render: the effect of a collection runs when
\* its setter was called, and writes the whole collection to its slot.
SaveEffects(set, events1, tasks1, payments1, goals1) ==
  [events |-> IF "events" \in set
              THEN setItem(storage.events, Stringify(events1)) ELSE storage.events,
   tasks |-> IF "tasks" \in set
             THEN setItem(storage.tasks, Stringify(tasks1)) ELSE storage.tasks,
   payments |-> IF "payments" \in set
                THEN setItem(storage.payments, Stringify(payments1))
                ELSE storage.payments,
   goals |-> IF "goals" \in set
             THEN setItem(storage.goals, Stringify(goals1)) ELSE storage.goals]

\* The slots as the mount's save effects leave them: each holds its collection.
StorageAtMount ==
  [events |-> Stringify(calendarEvents), tasks |-> Stringify(recurringTasks),
   payments |-> Stringify(paymentHistory), goals |-> Stringify(goals)]

\* The browser's quota is reached, or space is freed again.
StorageQuota ==
  /\ storageFull' = ~storageFull
  /\ op' = [name |-> "storageQuota", kind |-> "", awaits |-> FALSE]
  /\ UNCHANGED <<messages, loading, calendarEvents, recurringTasks, paymentHistory,
                 goals, showConfirmationDialog, pendingActionDetails,
                 pendingActionType, pendingFunctionCall, editingTask, chatSession,
                 utcOffset, storage, now, today, inflight, functionResults, intents,
                 nSends, nToggles, nEdits, nStatus>>

\* What loadRecurringTasksFromLocalStorage may return at mount.
StoredTasks ==
  {<<[id |-> DecimalString(0), title |-> "Pay rent", recurrence |-> "monthly",
      lastExecutionDate |-> 0, dueDate |-> 1, completed |-> FALSE]>>}

Init ==
  /\ storageFull = FALSE
  /\ utcOffset = 0
  /\ loading = FALSE
  /\ calendarEvents = <<>>
  /\ recurringTasks \in StoredTasks
  /\ paymentHistory = <<>>
  /\ goals = <<>>
  /\ now = 1
  /\ today = 0
  /\ messages = Effects(<<Welcome>>, recurringTasks, goals, today, TRUE, TRUE)
  /\ showConfirmationDialog = FALSE
  /\ pendingActionDetails = NullDetails
  /\ pendingActionType = NullType
  /\ pendingFunctionCall = NullCall
  /\ editingTask = NullDetails
  /\ chatSession \in BOOLEAN
  /\ inflight = {}
  /\ functionResults = <<>>
  /\ intents = {}
  /\ nSends = 0 /\ nToggles = 0 /\ nEdits = 0 /\ nStatus = 0
  /\ op = Op("mount", "", FALSE)
  /\ storage = StorageAtMount

\* ----------------------------------------------------------- sendMessage
sendMessage(text) ==
  /\ InputEnabled
  /\ IF text = "" \/ loading
     THEN /\ op' = Op("sendMessage", "rejected", FALSE)
          /\ UNCHANGED <<messages, loading, inflight, nSends>>
     ELSE /\ nSends < MaxSends
          /\ messages' = AfterRender(Append(messages, User(text)),
                                     recurringTasks, goals, FALSE, FALSE)
          /\ loading' = TRUE
          /\ inflight' = inflight \cup {[call |-> "send", n |-> nSends + 1]}
          /\ nSends' = nSends + 1
          /\ op' = Op("sendMessage", "accepted", TRUE)
  /\ UNCHANGED <<calendarEvents, recurringTasks, paymentHistory, goals,
                 showConfirmationDialog, pendingActionDetails, pendingActionType,
                 pendingFunctionCall, editingTask, chatSession, utcOffset, storage, storageFull, now, today,
                 functionResults, intents, nToggles, nEdits, nStatus>>

\* Mutant: the event draft takes its title from the time argument.
DraftOf_timeAsTitle(name, args) ==
  CASE name = createCalendarEventName ->
         [id |-> EmptyId, title |-> args.time, date |-> args.date, time |-> args.time]
    [] name = createRecurringTaskName ->
         [id |-> EmptyId, title |-> args.title, recurrence |-> args.recurrence,
          lastExecutionDate |-> NoDate, dueDate |-> args.dueDate, completed |-> FALSE]
    [] name = payBillName ->
         [id |-> EmptyId, biller |-> args.biller, amount |-> args.amount,
          dueDate |-> args.dueDate, paymentDate |-> NoDate]
    [] name = createGoalName ->
         [id |-> EmptyId, title |-> args.title, description |-> args.description,
          targetDate |-> args.targetDate, progress |-> 0, status |-> "not-started",
          creationDate |-> NoDate]

\* The draft sendMessage builds from a recognized function call.
DraftOf(name, args) ==
  CASE name = createCalendarEventName ->
         [id |-> EmptyId, title |-> args.title, date |-> args.date, time |-> args.time]
    [] name = createRecurringTaskName ->
         [id |-> EmptyId, title |-> args.title, recurrence |-> args.recurrence,
          lastExecutionDate |-> NoDate, dueDate |-> args.dueDate, completed |-> FALSE]
    [] name = payBillName ->
         [id |-> EmptyId, biller |-> args.biller, amount |-> args.amount,
          dueDate |-> args.dueDate, paymentDate |-> NoDate]
    [] name = createGoalName ->
         [id |-> EmptyId, title |-> args.title, description |-> args.description,
          targetDate |-> args.targetDate, progress |-> 0, status |-> "not-started",
          creationDate |-> NoDate]

\* Mutant: every intent is tagged as an event.
TypeOf_alwaysEvent(name) == "event"

TypeOf(name) ==
  CASE name = createCalendarEventName -> "event"
    [] name = createRecurringTaskName -> "task"
    [] name = payBillName -> "payment"
    [] name = createGoalName -> "goal"

\* Mutant: the notice does not name the function call.
UnrecognizedNotice_generic(name) == [tpl |-> "notConfigured", name |-> ""]

\* `I received a request to perform "${fc.name}", but I'm not configured ...`
UnrecognizedNotice(name) == [tpl |-> "notConfigured", name |-> name]

\* The continuation of sendMessage after `await generateContent(...)`.
SendResolved(c, resp) ==
  /\ c \in inflight /\ c.call = "send"
  /\ inflight' = inflight \ {c}
  /\ IF resp.type = "fc" /\ resp.name \in RecognizedNames
     THEN LET fc == [id |-> <<"fc", c.n>>, name |-> resp.name, args |-> resp.args]
          IN /\ pendingActionDetails' = DraftOf(resp.name, resp.args)
             /\ pendingActionType' = TypeOf(resp.name)
             /\ pendingFunctionCall' = fc
             /\ showConfirmationDialog' = TRUE
             /\ intents' = intents \cup {fc}
             /\ op' = Op("sendResolved", TypeOf(resp.name), FALSE)
             /\ UNCHANGED <<messages, loading>>
     ELSE /\ messages' =
               AfterRender(
                 Append(messages,
                   AI(CASE resp.type = "fc" -> UnrecognizedNotice(resp.name)
                        [] resp.type = "text" ->
                             IF resp.text = "" THEN [tpl |-> "noTextResponse"]
                             ELSE [tpl |-> "text", text |-> resp.text]
                        [] OTHER -> [tpl |-> "sendError"])),
                 recurringTasks, goals, FALSE, FALSE)
          /\ loading' = FALSE
          /\ op' = Op("sendResolved", resp.type, FALSE)
          /\ UNCHANGED <<pendingActionDetails, pendingActionType, pendingFunctionCall,
                         showConfirmationDialog, intents>>
  /\ UNCHANGED <<calendarEvents, recurringTasks, paymentHistory, goals, editingTask,
                 chatSession, utcOffset, storage, storageFull, now, today, functionResults, nSends, nToggles, nEdits,
                 nStatus>>

\* ---------------------------------------------------------- handleConfirm
\* resultMessage of handleConfirm, by pending type.
ResultMessage(type, d) ==
  CASE type = "event" ->
         [tpl |-> "eventCreated", title |-> d.title, date |-> d.date, time |-> d.time]
    [] type = "task" ->
         [tpl |-> "taskCreated", title |-> d.title, recurrence |-> d.recurrence,
          dueDate |-> d.dueDate]
    [] type = "payment" ->
         [tpl |-> "paymentInitiated", amount |-> d.amount, biller |-> d.biller,
          dueDate |-> d.dueDate]
    [] type = "goal" ->
         [tpl |-> "goalCreated", title |-> d.title, targetDate |-> d.targetDate]
    [] type = "confirmTaskCompletion" ->
         [tpl |-> "taskMarked", title |-> d.title, completed |-> d.completed]
    [] OTHER -> [tpl |-> "empty"]

\* The record handleConfirm builds from the draft at commit time.
NewEvent(d) ==
  [id |-> DecimalString(now), title |-> d.title, date |-> d.date, time |-> d.time]

NewTask(d) ==
  [id |-> DecimalString(now), title |-> d.title, recurrence |-> d.recurrence,
   lastExecutionDate |-> today, dueDate |-> d.dueDate, completed |-> FALSE]

NewPayment(d) ==
  [id |-> DecimalString(now), biller |-> d.biller, amount |-> d.amount,
   dueDate |-> d.dueDate, paymentDate |-> today]

\* Mutant: a progress or status argument of the intent is honoured.
NewGoal_honoursArgs(d) ==
  LET args == pendingFunctionCall.args
  IN [id |-> DecimalString(now), title |-> d.title, description |-> d.description,
      targetDate |-> d.targetDate,
      progress |-> IF "progress" \in DOMAIN args THEN args.progress ELSE 0,
      status |-> IF "status" \in DOMAIN args THEN args.status ELSE "not-started",
      creationDate |-> today]

NewGoal(d) ==
  [id |-> DecimalString(now), title |-> d.title, description |-> d.description,
   targetDate |-> d.targetDate, progress |-> 0, status |-> "not-started",
   creationDate |-> today]

\* prevTasks.map(task => task.id === toggledTask.id ? {...task, completed} : task)
ApplyToggle(prevTasks, toggledTask) ==
  [i \in 1..Len(prevTasks) |->
     IF prevTasks[i].id = toggledTask.id
     THEN [prevTasks[i] EXCEPT !.completed = toggledTask.completed]
     ELSE prevTasks[i]]

\* The collections after the commit of a pending action of `type`.
CommitEvents(type, d) ==
  IF type = "event" THEN Append(calendarEvents, NewEvent(d)) ELSE calendarEvents

\* Mutant: the toggle commit appends the toggled draft instead of replacing it.
CommitTasks_appendsToggle(type, d) ==
  CASE type = "task" -> Append(recurringTasks, NewTask(d))
    [] type = "confirmTaskCompletion" -> Append(recurringTasks, d)
    [] OTHER -> recurringTasks

\* Mutant: the new task is put in front of the previous tasks.
CommitTasks_prepends(type, d) ==
  CASE type = "task" -> <<NewTask(d)>> \o recurringTasks
    [] type = "confirmTaskCompletion" -> ApplyToggle(recurringTasks, d)
    [] OTHER -> recurringTasks

CommitTasks(type, d) ==
  CASE type = "task" -> Append(recurringTasks, NewTask(d))
    [] type = "confirmTaskCompletion" -> ApplyToggle(recurringTasks, d)
    [] OTHER -> recurringTasks

CommitPayments(type, d) ==
  IF type = "payment" THEN Append(paymentHistory, NewPayment(d)) ELSE paymentHistory

CommitGoals(type, d) ==
  IF type = "goal" THEN Append(goals, NewGoal(d)) ELSE goals

\* Mutant: every branch of handleConfirm sets aiResponseNeeded.
AiResponseNeeded_always(type) == TRUE

\* aiResponseNeeded after the branch on pendingActionType.
AiResponseNeeded(type) == type \in {"event", "task", "payment", "goal"}

\* if (aiResponseNeeded && pendingFunctionCall && chatSessionRef.current)
ConfirmAwaitsFollowUp(type, fc) ==
  AiResponseNeeded(type) /\ fc # NullCall /\ chatSession

\* The collection whose setter the branch on pendingActionType calls.
SettersCalled(type) ==
  CASE type = "event" -> {"events"}
    [] type \in {"task", "confirmTaskCompletion"} -> {"tasks"}
    [] type = "payment" -> {"payments"}
    [] type = "goal" -> {"goals"}
    [] OTHER -> {}

\* Mutant: handleConfirm has no guard.
ConfirmReturnsEarly_never == FALSE

\* if (!pendingActionDetails || !pendingActionType) return;
ConfirmReturnsEarly ==
  pendingActionDetails = NullDetails \/ pendingActionType = NullType

\* Mutant: handleConfirm leaves the dialog as it is.
DialogAfterConfirm_leftOpen == showConfirmationDialog

\* setShowConfirmationDialog(false) at the start of handleConfirm.
DialogAfterConfirm == FALSE

\* handleConfirm up to its await, or to its end when it awaits nothing.
handleConfirm ==
  /\ showConfirmationDialog
  /\ IF ConfirmReturnsEarly
     THEN /\ op' = Op("handleConfirm", "none", FALSE)
          /\ UNCHANGED <<messages, loading, calendarEvents, recurringTasks,
                         paymentHistory, goals, showConfirmationDialog,
                         pendingActionDetails, pendingActionType, pendingFunctionCall,
                         inflight, functionResults, storage>>
     ELSE LET type == pendingActionType
              d == pendingActionDetails
              fc == pendingFunctionCall
              resultMessage == ResultMessage(type, d)
              awaits == ConfirmAwaitsFollowUp(type, fc)
              tasks1 == CommitTasks(type, d)
              goals1 == CommitGoals(type, d)
              msgs1 == IF type = "confirmTaskCompletion"
                       THEN Append(messages, AI(resultMessage)) ELSE messages
          IN /\ showConfirmationDialog' = DialogAfterConfirm
             /\ calendarEvents' = CommitEvents(type, d)
             /\ recurringTasks' = tasks1
             /\ paymentHistory' = CommitPayments(type, d)
             /\ goals' = goals1
             /\ storage' = SaveEffects(SettersCalled(type), CommitEvents(type, d),
                                       tasks1, CommitPayments(type, d), goals1)
             /\ messages' = AfterRender(msgs1, tasks1, goals1,
                                        type \in {"task", "confirmTaskCompletion"},
                                        type = "goal")
             /\ op' = Op("handleConfirm", type, awaits)
             /\ IF awaits
                THEN /\ loading' = TRUE
                     /\ functionResults' =
                          Append(functionResults,
                                 [id |-> fc.id, name |-> fc.name, result |-> resultMessage])
                     /\ inflight' = inflight \cup
                          {[call |-> "confirm", n |-> Len(functionResults) + 1,
                            resultMessage |-> resultMessage]}
                     /\ UNCHANGED <<pendingActionDetails, pendingActionType,
                                    pendingFunctionCall>>
                ELSE /\ pendingActionDetails' = NullDetails
                     /\ pendingFunctionCall' = NullCall
                     /\ pendingActionType' = NullType
                     /\ loading' = FALSE
                     /\ UNCHANGED <<inflight, functionResults>>
  /\ UNCHANGED <<editingTask, chatSession, utcOffset, storageFull, now, today, intents,
                 nSends, nToggles, nEdits, nStatus>>

\* The message handleConfirm appends after its follow-up call: the oracle's
\* text or resultMessage, or, in the catch, resultMessage with the error notice.
ConfirmFollowUpMessage(resp, resultMessage) ==
  AI(IF resp.type = "error"
     THEN [tpl |-> "withFollowUpError", result |-> resultMessage]
     ELSE IF resp.text = "" THEN resultMessage
     ELSE [tpl |-> "text", text |-> resp.text])

\* What the rest of handleConfirm sets once its follow-up call has resolved or
\* thrown.
ConfirmResolvedSets(c, resp) ==
  /\ c \in inflight /\ c.call = "confirm"
  /\ inflight' = inflight \ {c}
  /\ messages' = AfterRender(
                   Append(messages, ConfirmFollowUpMessage(resp, c.resultMessage)),
                   recurringTasks, goals, FALSE, FALSE)
  /\ pendingActionDetails' = NullDetails
  /\ pendingFunctionCall' = NullCall
  /\ pendingActionType' = NullType
  /\ loading' = FALSE
  /\ op' = Op("confirmResolved", resp.type, FALSE)
  /\ UNCHANGED <<showConfirmationDialog, editingTask, chatSession, utcOffset, storage, storageFull, now, today,
                 functionResults, intents, nSends, nToggles, nEdits, nStatus>>

\* s without its last element.
Front(s) == SubSeq(s, 1, Len(s) - 1)

\* Mutant: a failed follow-up rolls the committed record back.
ConfirmResolved_rollsBack(c, resp) ==
  /\ ConfirmResolvedSets(c, resp)
  /\ LET undo(tpl) == resp.type = "error" /\ c.resultMessage.tpl = tpl
     IN /\ calendarEvents' = IF undo("eventCreated") THEN Front(calendarEvents)
                             ELSE calendarEvents
        /\ recurringTasks' = IF undo("taskCreated") THEN Front(recurringTasks)
                             ELSE recurringTasks
        /\ paymentHistory' = IF undo("paymentInitiated") THEN Front(paymentHistory)
                             ELSE paymentHistory
        /\ goals' = IF undo("goalCreated") THEN Front(goals) ELSE goals

\* The rest of handleConfirm once its follow-up call has resolved or thrown.
ConfirmResolved(c, resp) ==
  /\ ConfirmResolvedSets(c, resp)
  /\ UNCHANGED <<calendarEvents, recurringTasks, paymentHistory, goals>>

\* Mutant: the follow-up is attempted whether or not there is a chat session.
CancelNotifiesOracle_ignoresSession(type, fc) ==
  type # "confirmTaskCompletion" /\ fc # NullCall

\* ----------------------------------------------------------- handleCancel
\* if (pendingActionType !== 'confirmTaskCompletion' && chatSessionRef.current
\*     && pendingFunctionCall)
CancelNotifiesOracle(type, fc) ==
  type # "confirmTaskCompletion" /\ chatSession /\ fc # NullCall

\* Everything handleCancel sets, up to its follow-up call.
CancelSets ==
  /\ showConfirmationDialog
  /\ LET type == pendingActionType
         fc == pendingFunctionCall
         notifies == CancelNotifiesOracle(type, fc)
     IN /\ showConfirmationDialog' = FALSE
        /\ pendingActionDetails' = NullDetails
        /\ pendingFunctionCall' = NullCall
        /\ pendingActionType' = NullType
        /\ op' = Op("handleCancel", type, notifies)
        /\ IF notifies
           THEN /\ loading' = TRUE
                /\ functionResults' =
                     Append(functionResults,
                            [id |-> fc.id, name |-> fc.name,
                             result |-> [tpl |-> "userCancelled"]])
                /\ inflight' = inflight \cup
                     {[call |-> "cancel", n |-> Len(functionResults) + 1]}
                /\ UNCHANGED messages
           ELSE /\ messages' = AfterRender(
                                 Append(messages, AI([tpl |-> "actionCancelled"])),
                                 recurringTasks, goals, FALSE, FALSE)
                /\ loading' = FALSE
                /\ UNCHANGED <<inflight, functionResults>>
  /\ UNCHANGED <<editingTask, chatSession, utcOffset, storage, storageFull, now, today, intents, nSends, nToggles,
                 nEdits, nStatus>>

\* Mutant: the cancel button is wired to the commit of the pending action.
handleCancel_commits ==
  /\ CancelSets
  /\ calendarEvents' = CommitEvents(pendingActionType, pendingActionDetails)
  /\ recurringTasks' = CommitTasks(pendingActionType, pendingActionDetails)
  /\ paymentHistory' = CommitPayments(pendingActionType, pendingActionDetails)
  /\ goals' = CommitGoals(pendingActionType, pendingActionDetails)

handleCancel ==
  /\ CancelSets
  /\ UNCHANGED <<calendarEvents, recurringTasks, paymentHistory, goals>>

\* Mutant: setLoading(false) sits in .then instead of .finally.
CancelResolved_noFinally(c, resp) ==
  /\ c \in inflight /\ c.call = "cancel"
  /\ inflight' = inflight \ {c}
  /\ messages' =
       AfterRender(
         Append(messages,
           AI(IF resp.type = "error" THEN [tpl |-> "actionCancelledWithError"]
              ELSE IF resp.text = "" THEN [tpl |-> "actionCancelled"]
              ELSE [tpl |-> "text", text |-> resp.text])),
         recurringTasks, goals, FALSE, FALSE)
  /\ loading' = IF resp.type = "error" THEN loading ELSE FALSE
  /\ op' = Op("cancelResolved", resp.type, FALSE)
  /\ UNCHANGED <<calendarEvents, recurringTasks, paymentHistory, goals,
                 showConfirmationDialog, pendingActionDetails, pendingActionType,
                 pendingFunctionCall, editingTask, chatSession, utcOffset, storage, storageFull, now, today,
                 functionResults, intents, nSends, nToggles, nEdits, nStatus>>

\* The .then / .catch / .finally of handleCancel's follow-up call.
CancelResolved(c, resp) ==
  /\ c \in inflight /\ c.call = "cancel"
  /\ inflight' = inflight \ {c}
  /\ messages' =
       AfterRender(
         Append(messages,
           AI(IF resp.type = "error" THEN [tpl |-> "actionCancelledWithError"]
              ELSE IF resp.text = "" THEN [tpl |-> "actionCancelled"]
              ELSE [tpl |-> "text", text |-> resp.text])),
         recurringTasks, goals, FALSE, FALSE)
  /\ loading' = FALSE
  /\ op' = Op("cancelResolved", resp.type, FALSE)
  /\ UNCHANGED <<calendarEvents, recurringTasks, paymentHistory, goals,
                 showConfirmationDialog, pendingActionDetails, pendingActionType,
                 pendingFunctionCall, editingTask, chatSession, utcOffset, storage, storageFull, now, today,
                 functionResults, intents, nSends, nToggles, nEdits, nStatus>>

\* --------------------------------------------- handleToggleTaskCompletion
\* recurringTasks.find(task => task.id === taskId)
FindTask(tasks, taskId) ==
  LET hits == {i \in 1..Len(tasks) : tasks[i].id = taskId}
  IN IF hits = {} THEN NullDetails
     ELSE tasks[CHOOSE i \in hits : \A j \in hits : i <= j]

\* The draft of a toggle: the found task with completed set to the opposite of
\* the status the clicked row showed.
ToggleDraft(taskToToggle, currentCompletedStatus) ==
  [taskToToggle EXCEPT !.completed = ~currentCompletedStatus]

\* The click on row i of RecurringTaskView: onToggleComplete(task.id, task.completed).
handleToggleTaskCompletion(i) ==
  /\ BackgroundInteractive
  /\ nToggles < MaxToggles
  /\ i \in 1..Len(recurringTasks)
  /\ LET taskId == recurringTasks[i].id
         currentCompletedStatus == recurringTasks[i].completed
         taskToToggle == FindTask(recurringTasks, taskId)
     IN /\ taskToToggle # NullDetails
        /\ pendingActionDetails' = ToggleDraft(taskToToggle, currentCompletedStatus)
        /\ pendingActionType' = "confirmTaskCompletion"
        /\ pendingFunctionCall' =
             [id |-> <<"toggle", taskId>>, name |-> "toggleTaskCompletion",
              args |-> [taskId |-> taskId, newStatus |-> ~currentCompletedStatus]]
        /\ showConfirmationDialog' = TRUE
  /\ nToggles' = nToggles + 1
  /\ op' = Op("handleToggleTaskCompletion", "confirmTaskCompletion", FALSE)
  /\ UNCHANGED <<messages, loading, calendarEvents, recurringTasks, paymentHistory,
                 goals, editingTask, chatSession, utcOffset, storage, storageFull, now, today, inflight,
                 functionResults, intents, nSends, nEdits, nStatus>>

\* ---------------------------------------------------- the task edit dialog
handleEditTask(i) ==
  /\ BackgroundInteractive
  /\ nEdits < MaxEdits
  /\ i \in 1..Len(recurringTasks)
  /\ editingTask' = recurringTasks[i]
  /\ op' = Op("handleEditTask", "", FALSE)
  /\ UNCHANGED <<messages, loading, calendarEvents, recurringTasks, paymentHistory,
                 goals, showConfirmationDialog, pendingActionDetails,
                 pendingActionType, pendingFunctionCall, chatSession, utcOffset, storage, storageFull, now, today,
                 inflight, functionResults, intents, nSends, nToggles, nEdits, nStatus>>

\* What EditRecurringTaskDialog's handleSubmit may pass to onSave.
EditedTasks(task) ==
  {[task EXCEPT !.dueDate = dd, !.completed = cc] :
     dd \in {task.dueDate, NoDate}, cc \in BOOLEAN}

\* prevTasks.map(task => task.id === updatedTask.id ? updatedTask : task)
ReplaceTask(prevTasks, updatedTask) ==
  [i \in 1..Len(prevTasks) |->
     IF prevTasks[i].id = updatedTask.id THEN updatedTask ELSE prevTasks[i]]

handleSaveEditedTask(updatedTask) ==
  /\ EditOverlayShown
  /\ LET tasks1 == ReplaceTask(recurringTasks, updatedTask)
     IN /\ recurringTasks' = tasks1
        /\ storage' = SaveEffects({"tasks"}, calendarEvents, tasks1, paymentHistory, goals)
        /\ messages' = AfterRender(messages, tasks1, goals, TRUE, FALSE)
  /\ editingTask' = NullDetails
  /\ nEdits' = nEdits + 1
  /\ op' = Op("handleSaveEditedTask", "", FALSE)
  /\ UNCHANGED <<loading, calendarEvents, paymentHistory, goals,
                 showConfirmationDialog, pendingActionDetails, pendingActionType,
                 pendingFunctionCall, chatSession, utcOffset, storageFull, now, today,
                 inflight, functionResults, intents, nSends, nToggles, nStatus>>

handleCancelEditTask ==
  /\ EditOverlayShown
  /\ editingTask' = NullDetails
  /\ nEdits' = nEdits + 1
  /\ op' = Op("handleCancelEditTask", "", FALSE)
  /\ UNCHANGED <<messages, loading, calendarEvents, recurringTasks, paymentHistory,
                 goals, showConfirmationDialog, pendingActionDetails,
                 pendingActionType, pendingFunctionCall, chatSession, utcOffset, storage, storageFull, now, today,
                 inflight, functionResults, intents, nSends, nToggles, nStatus>>

\* ------------------------------------------------- handleUpdateGoalStatus
GoalStatuses == {"not-started", "in-progress", "completed", "on-hold", "cancelled"}

\* prevGoals.map(goal => goal.id === goalId ? {...goal, status: newStatus} : goal)
UpdateStatus(prevGoals, goalId, newStatus) ==
  [i \in 1..Len(prevGoals) |->
     IF prevGoals[i].id = goalId THEN [prevGoals[i] EXCEPT !.status = newStatus]
     ELSE prevGoals[i]]

\* The status <select> of row i of GoalView.
handleUpdateGoalStatus(i, newStatus) ==
  /\ BackgroundInteractive
  /\ nStatus < MaxStatusUpdates
  /\ i \in 1..Len(goals)
  /\ LET goals1 == UpdateStatus(goals, goals[i].id, newStatus)
     IN /\ goals' = goals1
        /\ storage' = SaveEffects({"goals"}, calendarEvents, recurringTasks,
                                  paymentHistory, goals1)
        /\ messages' = AfterRender(messages, recurringTasks, goals1, FALSE, TRUE)
  /\ nStatus' = nStatus + 1
  /\ op' = Op("handleUpdateGoalStatus", newStatus, FALSE)
  /\ UNCHANGED <<loading, calendarEvents, recurringTasks, paymentHistory,
                 showConfirmationDialog, pendingActionDetails, pendingActionType,
                 pendingFunctionCall, editingTask, chatSession, utcOffset, storageFull, now,
                 today, inflight, functionResults, intents, nSends, nToggles, nEdits>>

\* -------------------------------------------------- the hourly reminders
\* Mutant: the hourly task scan posts every upcoming reminder, unfiltered.
TaskReminderTimer_noDedup ==
  /\ Len(recurringTasks) > 0
  /\ LET upcoming == getUpcomingDueDates(recurringTasks, DaysThreshold, today)
         reminders == MapSeq(MapSeq(upcoming, TaskReminderText), AI)
     IN IF reminders = <<>>
        THEN UNCHANGED <<messages, op>>
        ELSE /\ messages' = messages \o reminders
             /\ op' = Op("checkAndPostReminders", "", FALSE)
  /\ UNCHANGED <<loading, calendarEvents, recurringTasks, paymentHistory, goals,
                 showConfirmationDialog, pendingActionDetails, pendingActionType,
                 pendingFunctionCall, editingTask, chatSession, utcOffset, storage, storageFull, now, today, inflight,
                 functionResults, intents, nSends, nToggles, nEdits, nStatus>>

\* setInterval(checkAndPostReminders, ...), set only when recurringTasks is not empty.
TaskReminderTimer ==
  /\ Len(recurringTasks) > 0
  /\ LET newReminders == checkAndPostReminders(messages, recurringTasks, today)
     IN IF newReminders = <<>>
        THEN UNCHANGED <<messages, op>>
        ELSE /\ messages' = AfterRender(messages \o newReminders,
                                        recurringTasks, goals, FALSE, FALSE)
             /\ op' = Op("checkAndPostReminders", "", FALSE)
  /\ UNCHANGED <<loading, calendarEvents, recurringTasks, paymentHistory, goals,
                 showConfirmationDialog, pendingActionDetails, pendingActionType,
                 pendingFunctionCall, editingTask, chatSession, utcOffset, storage, storageFull, now, today, inflight,
                 functionResults, intents, nSends, nToggles, nEdits, nStatus>>

\* setInterval(checkAndPostGoalReminders, ...), set only when goals is not empty.
GoalReminderTimer ==
  /\ Len(goals) > 0
  /\ LET newReminders == checkAndPostGoalReminders(messages, goals, today)
     IN IF newReminders = <<>>
        THEN UNCHANGED <<messages, op>>
        ELSE /\ messages' = AfterRender(messages \o newReminders,
                                        recurringTasks, goals, FALSE, FALSE)
             /\ op' = Op("checkAndPostGoalReminders", "", FALSE)
  /\ UNCHANGED <<loading, calendarEvents, recurringTasks, paymentHistory, goals,
                 showConfirmationDialog, pendingActionDetails, pendingActionType,
                 pendingFunctionCall, editingTask, chatSession, utcOffset, storage, storageFull, now, today, inflight,
                 functionResults, intents, nSends, nToggles, nEdits, nStatus>>

\* ---------------------------------------------------------------- the clock
\* Date.now() advances by a millisecond; the day is the same.
Tick ==
  /\ now < MaxClock
  /\ now' = now + 1
  /\ op' = Op("tick", "", FALSE)
  /\ UNCHANGED <<messages, loading, calendarEvents, recurringTasks, paymentHistory,
                 goals, showConfirmationDialog, pendingActionDetails,
                 pendingActionType, pendingFunctionCall, editingTask, chatSession, utcOffset, storage, storageFull,
                 today, inflight, functionResults, intents, nSends, nToggles, nEdits,
                 nStatus>>

\* Midnight passes: the day and the clock both advance.
NextDay ==
  /\ today < MaxDay
  /\ today' = today + 1
  /\ now' = now + 1
  /\ op' = Op("nextDay", "", FALSE)
  /\ UNCHANGED <<messages, loading, calendarEvents, recurringTasks, paymentHistory,
                 goals, showConfirmationDialog, pendingActionDetails,
                 pendingActionType, pendingFunctionCall, editingTask, chatSession, utcOffset, storage, storageFull,
                 inflight, functionResults, intents, nSends, nToggles, nEdits, nStatus>>

\* ------------------------------------------------------------------ Next
\* The confirmation pipeline: chat, the dialog, the task toggle, the reminder
\* timers and the millisecond clock.
Next ==
  \/ \E text \in Texts : sendMessage(text)
  \/ \E c \in inflight : \E resp \in SendResponses : SendResolved(c, resp)
  \/ handleConfirm
  \/ \E c \in inflight : \E resp \in FollowUpResponses : ConfirmResolved(c, resp)
  \/ handleCancel
  \/ \E c \in inflight : \E resp \in FollowUpResponses : CancelResolved(c, resp)
  \/ \E i \in 1..Len(recurringTasks) : handleToggleTaskCompletion(i)
  \/ TaskReminderTimer
  \/ GoalReminderTimer
  \/ Tick

Spec == Init /\ [][Next]_vars

\* The pipeline with one chat message, together with the edit dialog, the goal
\* status select and the passing of days.
NextUI ==
  \/ \E text \in Texts : nSends < 1 /\ sendMessage(text)
  \/ \E c \in inflight : \E resp \in SendResponses : SendResolved(c, resp)
  \/ handleConfirm
  \/ \E c \in inflight : \E resp \in FollowUpResponses : ConfirmResolved(c, resp)
  \/ handleCancel
  \/ \E c \in inflight : \E resp \in FollowUpResponses : CancelResolved(c, resp)
  \/ \E i \in 1..Len(recurringTasks) : handleToggleTaskCompletion(i)
  \/ \E i \in 1..Len(recurringTasks) : handleEditTask(i)
  \/ EditOverlayShown /\ \E t \in EditedTasks(editingTask) : handleSaveEditedTask(t)
  \/ handleCancelEditTask
  \/ \E i \in 1..Len(goals) : \E st \in GoalStatuses : handleUpdateGoalStatus(i, st)
  \/ TaskReminderTimer
  \/ GoalReminderTimer
  \/ NextDay
  \/ StorageQuota

SpecUI == Init /\ [][NextUI]_vars

\* ================================================================= claims
\* ------------------------------------------------- the reminder scans alone
\* What localStorage may hold at mount: up to MaxStored tasks and goals, among
\* them records with the same title and date, some due only a week from the
\* next day.
StoredTaskShapes ==
  {[title |-> t, dueDate |-> d] : t \in {"Pay rent", "Gym"}, d \in {1, 8}}

StoredTaskLists ==
  UNION {{[i \in 1..n |->
             [id |-> DecimalString(i - 1), title |-> f[i].title,
              recurrence |-> "monthly", lastExecutionDate |-> 0,
              dueDate |-> f[i].dueDate, completed |-> FALSE]] :
            f \in [1..n -> StoredTaskShapes]} : n \in 0..MaxStored}

StoredGoalShapes ==
  {[targetDate |-> d, status |-> st] :
     d \in {1, 8}, st \in {"not-started", "in-progress"}}

StoredGoalLists ==
  UNION {{[i \in 1..n |->
             [id |-> DecimalString(i - 1), title |-> "Run 10k", description |-> "",
              targetDate |-> f[i].targetDate, progress |-> 0,
              status |-> f[i].status, creationDate |-> 0]] :
            f \in [1..n -> StoredGoalShapes]} : n \in 0..MaxStored}

\* The state after mount with the stored tasks and goals loaded.
InitScan ==
  /\ storageFull = FALSE
  /\ utcOffset = 0
  /\ loading = FALSE
  /\ calendarEvents = <<>>
  /\ recurringTasks \in StoredTaskLists
  /\ paymentHistory = <<>>
  /\ goals \in StoredGoalLists
  /\ now = 1
  /\ today = 0
  /\ messages = Effects(<<Welcome>>, recurringTasks, goals, today, TRUE, TRUE)
  /\ showConfirmationDialog = FALSE
  /\ pendingActionDetails = NullDetails
  /\ pendingActionType = NullType
  /\ pendingFunctionCall = NullCall
  /\ editingTask = NullDetails
  /\ chatSession = TRUE
  /\ inflight = {}
  /\ functionResults = <<>>
  /\ intents = {}
  /\ nSends = 0 /\ nToggles = 0 /\ nEdits = 0 /\ nStatus = 0
  /\ op = Op("mount", "", FALSE)
  /\ storage = StorageAtMount

\* The hourly scans, the passing of days, and the two handlers that change a
\* stored task or goal without the chat.
NextScan ==
  \/ TaskReminderTimer
  \/ GoalReminderTimer
  \/ NextDay
  \/ \E i \in 1..Len(recurringTasks) : handleEditTask(i)
  \/ EditOverlayShown /\ \E t \in EditedTasks(editingTask) : handleSaveEditedTask(t)
  \/ handleCancelEditTask
  \/ \E i \in 1..Len(goals) : \E st \in GoalStatuses : handleUpdateGoalStatus(i, st)

SpecScan == InitScan /\ [][NextScan]_vars

\* The chat pipeline together with the status select of GoalView.
NextGoals ==
  \/ Next
  \/ \E i \in 1..Len(goals) : \E st \in GoalStatuses : handleUpdateGoalStatus(i, st)

SpecGoals == Init /\ [][NextGoals]_vars

\* ------------------------------------------- the due-date filter's inputs
\* The time zones the host may be in: west of, at, and east of UTC.
UtcOffsets == {-5, 0, 2}

\* What loadRecurringTasks can return: any stored due date, completion flag and
\* last-execution date.
DueTaskShapes ==
  {[dueDate |-> d, completed |-> c, lastExecutionDate |-> l] :
     d \in {NoDate, 0, 3, 8}, c \in BOOLEAN, l \in {NoDate, 0, 3}}

DueTaskLists ==
  UNION {{[i \in 1..n |->
             [id |-> DecimalString(i - 1), title |-> "Pay rent",
              recurrence |-> "monthly",
              lastExecutionDate |-> f[i].lastExecutionDate,
              dueDate |-> f[i].dueDate, completed |-> f[i].completed]] :
            f \in [1..n -> DueTaskShapes]} : n \in 0..MaxStored}

\* The state after mount, in any of the time zones, with the stored tasks loaded.
InitDue ==
  /\ storageFull = FALSE
  /\ loading = FALSE
  /\ calendarEvents = <<>>
  /\ recurringTasks \in DueTaskLists
  /\ paymentHistory = <<>>
  /\ goals = <<>>
  /\ now = 1
  /\ today = 0
  /\ utcOffset \in UtcOffsets
  /\ messages = Effects(<<Welcome>>, recurringTasks, goals, today, TRUE, TRUE)
  /\ showConfirmationDialog = FALSE
  /\ pendingActionDetails = NullDetails
  /\ pendingActionType = NullType
  /\ pendingFunctionCall = NullCall
  /\ editingTask = NullDetails
  /\ chatSession = TRUE
  /\ inflight = {}
  /\ functionResults = <<>>
  /\ intents = {}
  /\ nSends = 0 /\ nToggles = 0 /\ nEdits = 0 /\ nStatus = 0
  /\ op = Op("mount", "", FALSE)
  /\ storage = StorageAtMount

\* The hourly scan of the tasks and the passing of days.
NextDue ==
  \/ TaskReminderTimer
  \/ NextDay

SpecDue == InitDue /\ [][NextDue]_vars

\* ---------------------------------------------------------------- claims
CreatingTypes == {"event", "task", "payment", "goal"}

PendingFields == <<pendingActionType, pendingActionDetails, pendingFunctionCall>>

\* coll' is coll with exactly one record appended.
OneAppended(coll, collNext) ==
  Len(collNext) = Len(coll) + 1 /\ SubSeq(collNext, 1, Len(coll)) = coll

\* The step is handleConfirm committing a pending action of `type`.
ConfirmStepOf(type) ==
  op'.name = "handleConfirm" /\ op'.kind = type /\ pendingActionType = type

\* The messages a step appended.
Appended == SubSeq(messages', Len(messages) + 1, Len(messages'))

\* C1: a collection gains a record only in a handleConfirm step on a pending
\* action of that collection's kind, and then exactly one; no step of
\* sendMessage, its continuation, handleToggleTaskCompletion, handleCancel, its
\* continuation or a reminder scan changes the number of records.
C1_OnlyConfirmAddsRecords ==
  [][/\ Len(calendarEvents') # Len(calendarEvents)
          => ConfirmStepOf("event") /\ Len(calendarEvents') = Len(calendarEvents) + 1
     /\ Len(recurringTasks') # Len(recurringTasks)
          => ConfirmStepOf("task") /\ Len(recurringTasks') = Len(recurringTasks) + 1
     /\ Len(paymentHistory') # Len(paymentHistory)
          => ConfirmStepOf("payment") /\ Len(paymentHistory') = Len(paymentHistory) + 1
     /\ Len(goals') # Len(goals)
          => ConfirmStepOf("goal") /\ Len(goals') = Len(goals) + 1]_vars

\* A payment was committed by handleConfirm in a run where a toggle was
\* requested from the task list and a second message was sent as well.
C1_Witness ==
  /\ op.name = "handleConfirm" /\ op.kind = "payment"
  /\ Len(paymentHistory) = 1
  /\ nToggles = 1 /\ nSends = 2

\* C2: once a pending action is set, only handleConfirm (or its continuation)
\* and handleCancel change or clear it.
C2_PendingChangedOnlyByDecision ==
  [][(pendingActionType # NullType /\ PendingFields' # PendingFields)
       => op'.name \in {"handleConfirm", "confirmResolved", "handleCancel"}]_vars

\* C3: a handleConfirm step on a pending event, task, payment or goal appends
\* exactly one record to the collection of that kind and leaves the other
\* three collections as they were.
C3_ConfirmAppendsExactlyOne ==
  [][\A type \in CreatingTypes :
       ConfirmStepOf(type) =>
         /\ IF type = "event" THEN OneAppended(calendarEvents, calendarEvents')
            ELSE calendarEvents' = calendarEvents
         /\ IF type = "task" THEN OneAppended(recurringTasks, recurringTasks')
            ELSE recurringTasks' = recurringTasks
         /\ IF type = "payment" THEN OneAppended(paymentHistory, paymentHistory')
            ELSE paymentHistory' = paymentHistory
         /\ IF type = "goal" THEN OneAppended(goals, goals')
            ELSE goals' = goals]_vars

\* A task was confirmed into a collection that already held a task, while
\* another collection holds a record too.
C3_Witness ==
  /\ op.name = "handleConfirm" /\ op.kind = "task"
  /\ Len(recurringTasks) = 2
  /\ Len(calendarEvents) + Len(paymentHistory) + Len(goals) >= 1

\* No two records of `coll` share an id.
UniqueIds(coll) ==
  \A i, j \in 1..Len(coll) : i # j => coll[i].id # coll[j].id

\* C4: in every reachable state no two records of the same collection share
\* an id.
C4_IdsUniquePerCollection ==
  /\ UniqueIds(calendarEvents)
  /\ UniqueIds(recurringTasks)
  /\ UniqueIds(paymentHistory)
  /\ UniqueIds(goals)

\* C5: neither handleCancel nor the continuation of its follow-up call changes
\* events, tasks, payments or goals, whatever the pending kind and whether the
\* follow-up resolves or throws.
C5_CancelLeavesCollections ==
  [][op'.name \in {"handleCancel", "cancelResolved"}
       => UNCHANGED <<calendarEvents, recurringTasks, paymentHistory, goals>>]_vars

\* A cancellation whose follow-up call failed has completed.
C5_Witness ==
  /\ op.name = "cancelResolved" /\ op.kind = "error"
  /\ messages[Len(messages)].content.tpl = "actionCancelledWithError"

\* C6: a handleConfirm step on a ToggleTaskCompletion pending action negates
\* completed of one task, the one with the draft's id, changes no other field
\* of it, no other task, and not the number of tasks.
C6_ToggleFlipsExactlyOneTask ==
  [][ConfirmStepOf("confirmTaskCompletion") =>
       /\ Len(recurringTasks') = Len(recurringTasks)
       /\ \E k \in 1..Len(recurringTasks) :
            /\ recurringTasks[k].id = pendingActionDetails.id
            /\ recurringTasks'[k] =
                 [recurringTasks[k] EXCEPT !.completed = ~recurringTasks[k].completed]
            /\ \A j \in 1..Len(recurringTasks) :
                 j # k => recurringTasks'[j] = recurringTasks[j]]_vars

\* C7: the goal a handleConfirm step appends has progress 0 and status
\* not-started, whatever the arguments of the createGoal intent.
C7_NewGoalStartsAtZero ==
  [][ConfirmStepOf("goal") =>
       /\ Len(goals') = Len(goals) + 1
       /\ goals'[Len(goals')].progress = 0
       /\ goals'[Len(goals')].status = "not-started"]_vars

\* A goal was confirmed whose intent carried progress and status arguments.
C7_Witness ==
  /\ op.name = "handleConfirm" /\ op.kind = "goal"
  /\ Len(goals) >= 1
  /\ \E fc \in intents : fc.name = createGoalName /\ "progress" \in DOMAIN fc.args
                         /\ fc.args.progress # 0 /\ pendingFunctionCall = fc

\* The function results the oracle was sent for function call fc.
ResultsFor(fc) ==
  {k \in 1..Len(functionResults) :
     functionResults[k].id = fc.id /\ functionResults[k].name = fc.name}

\* No pending action, no dialog and no oracle call outstanding.
Idle ==
  /\ pendingActionType = NullType
  /\ pendingActionDetails = NullDetails
  /\ ~showConfirmationDialog
  /\ inflight = {}

\* C8: whenever the coordinator is idle, every recognized intent the oracle
\* returned has been answered by exactly one function result with its id and
\* name.
C8_EachIntentAnsweredOnce ==
  Idle => \A fc \in intents : Cardinality(ResultsFor(fc)) = 1

\* C9: when handleConfirm's follow-up call throws, no collection changes (the
\* committed record stays), the message resultMessage plus the error notice
\* is appended, and the pending fields and loading are cleared.
C9_FailedFollowUpKeepsCommit ==
  [][(op'.name = "confirmResolved" /\ op'.kind = "error") =>
       /\ UNCHANGED <<calendarEvents, recurringTasks, paymentHistory, goals>>
       /\ \E c \in inflight \ inflight' :
            /\ Len(Appended) >= 1
            /\ Appended[1] = AI([tpl |-> "withFollowUpError",
                                 result |-> c.resultMessage])
            /\ SubSeq(messages', 1, Len(messages)) = messages
       /\ pendingActionType' = NullType
       /\ pendingActionDetails' = NullDetails
       /\ pendingFunctionCall' = NullCall
       /\ loading' = FALSE]_vars

\* A confirm's follow-up failed after its record was committed: the record is
\* in its collection and the log ends with the result and the error notice.
C9_Witness ==
  /\ op.name = "confirmResolved" /\ op.kind = "error"
  /\ Len(calendarEvents) = 1
  /\ \E i \in 1..Len(messages) :
       /\ messages[i].content.tpl = "withFollowUpError"
       /\ messages[i].content.result.tpl = "eventCreated"

\* C10: a handleConfirm on a set pending action has, by the time it completes,
\* appended an assistant message describing the result: in the step itself
\* when it awaits nothing, in its continuation otherwise.
C10_ConfirmReportsOutcome ==
  [][/\ (op'.name = "handleConfirm" /\ op'.kind # "none" /\ ~op'.awaits) =>
          \E i \in 1..Len(Appended) :
            Appended[i] = AI(ResultMessage(pendingActionType, pendingActionDetails))
     /\ op'.name = "confirmResolved" =>
          \E i \in 1..Len(Appended) : Appended[i].role = "ai"]_vars

\* No pending action is set.
NoPendingAction ==
  pendingActionDetails = NullDetails \/ pendingActionType = NullType

\* C11: a handleConfirm step taken with no pending action set changes none of
\* the collections, the log, the pending fields, loading or the dialog flag,
\* and sends the oracle nothing.
C11_ConfirmWithoutPendingIsNoOp ==
  [][(op'.name = "handleConfirm" /\ NoPendingAction) =>
       UNCHANGED <<calendarEvents, recurringTasks, paymentHistory, goals, messages,
                   pendingActionDetails, pendingActionType, pendingFunctionCall,
                   loading, showConfirmationDialog, inflight, functionResults>>]_vars

\* Confirm was clicked on a dialog left open with nothing pending.
C11_Witness ==
  /\ op.name = "handleConfirm" /\ op.kind = "none"
  /\ NoPendingAction /\ showConfirmationDialog

\* C12: a handleCancel step taken with no pending action set changes none of
\* the collections, the log or the pending fields, and sends the oracle
\* nothing.
C12_CancelWithoutPendingIsNoOp ==
  [][(op'.name = "handleCancel" /\ NoPendingAction) =>
       UNCHANGED <<calendarEvents, recurringTasks, paymentHistory, goals, messages,
                   pendingActionDetails, pendingActionType, pendingFunctionCall,
                   inflight, functionResults>>]_vars

\* C13: in every reachable state with an oracle call outstanding, loading is
\* true (so that no sendMessage is accepted and no second call started).
C13_LoadingWhileCallOutstanding ==
  inflight # {} => loading

\* A confirm's follow-up call is outstanding.
ConfirmInFlight == \E c \in inflight : c.call = "confirm"

\* A pending action is set and the user has not decided on it yet.
AwaitsDecision ==
  pendingActionType # NullType /\ (showConfirmationDialog \/ ~ConfirmInFlight)

\* C14 as stated: while a pending action awaits the user's decision, loading
\* is true.
C14_LoadingWhilePendingAwaits ==
  AwaitsDecision => loading

\* C14 as amended: while a pending action awaits the user's decision the
\* confirmation dialog is shown, and no step from such a state is an accepted
\* sendMessage (the input is disabled by loading or by the dialog flag).
C14_NoSendWhilePendingAwaits ==
  /\ [](AwaitsDecision => showConfirmationDialog)
  /\ [][AwaitsDecision => ~(op'.name = "sendMessage" /\ op'.kind = "accepted")]_vars

\* A toggle awaits its decision with loading false and a send still allowed
\* by the bound.
C14_Witness ==
  /\ pendingActionType = "confirmTaskCompletion" /\ showConfirmationDialog
  /\ ~loading /\ inflight = {} /\ nSends < MaxSends

\* C15: the step in which the oracle's reply is a function call of a name
\* sendMessage does not handle leaves the pending fields, the dialog flag and
\* the four collections as they were, sends the oracle nothing, appends
\* exactly one assistant notice naming the call, and clears loading.
C15_UnrecognizedIntentOnlyNotifies ==
  [][(op'.name = "sendResolved" /\ op'.kind = "fc") =>
       /\ UNCHANGED <<pendingActionDetails, pendingActionType, pendingFunctionCall,
                      showConfirmationDialog, calendarEvents, recurringTasks,
                      paymentHistory, goals, functionResults, intents>>
       /\ SubSeq(messages', 1, Len(messages)) = messages
       /\ \E nm \in FunctionNames \ RecognizedNames :
            Appended = <<AI([tpl |-> "notConfigured", name |-> nm])>>
       /\ loading' = FALSE]_vars

\* An unrecognized function call arrived while the coordinator was idle, and
\* it is idle afterwards.
C15_Witness ==
  /\ op.name = "sendResolved" /\ op.kind = "fc"
  /\ Idle /\ ~loading
  /\ messages[Len(messages)].content.tpl = "notConfigured"

\* C16: in every reachable state with no oracle call outstanding and no
\* pending action set, loading is false (sendMessage's guard lets a non-empty
\* text through), whether the last call succeeded or failed.
C16_NotLoadingWhenNothingOutstanding ==
  (inflight = {} /\ pendingActionType = NullType) => ~loading

\* A second message was accepted right after the first send had failed.
C16_Witness ==
  /\ op.name = "sendMessage" /\ op.kind = "accepted"
  /\ Len(messages) >= 2
  /\ messages[Len(messages) - 1].content.tpl = "sendError"
  /\ messages[Len(messages)].role = "user"

\* A second run of the task scan, with the same tasks and the log the first
\* run left, appends nothing; the same for the goal scan.
SecondScanAppendsNothing ==
  /\ LET first == checkAndPostReminders(messages, recurringTasks, today)
     IN checkAndPostReminders(messages \o first, recurringTasks, today) = <<>>
  /\ LET first == checkAndPostGoalReminders(messages, goals, today)
     IN checkAndPostGoalReminders(messages \o first, goals, today) = <<>>

\* The step is an hourly scan that posted something.
ScanPosted ==
  op'.name \in {"checkAndPostReminders", "checkAndPostGoalReminders"}
    /\ messages' # messages

\* C17: in every reachable state a second run of either scan on the log the
\* first run left appends nothing, and an hourly scan never posts a text the
\* log already holds.
C17_ScanIdempotent ==
  /\ []SecondScanAppendsNothing
  /\ [][ScanPosted =>
         \A i \in 1..Len(Appended) : ~InLog(messages, Appended[i].content)]_vars

\* The hourly task scan has posted a reminder for a task that became
\* upcoming when the day changed, and a further run would post nothing.
C17_Witness ==
  /\ op.name = "checkAndPostReminders"
  /\ today > 0
  /\ checkAndPostReminders(messages, recurringTasks, today) = <<>>
  /\ \E i \in 1..Len(messages) : messages[i].content.tpl = "taskReminder"

\* The positions of the reminder messages in the log.
ReminderPositions ==
  {i \in 1..Len(messages) :
     messages[i].content.tpl \in {"taskReminder", "goalReminder"}}

\* C18: in every reachable state the log holds no two reminder messages with
\* the same text.
C18_NoReminderRepeated ==
  \A i, j \in ReminderPositions :
    i # j => messages[i].content # messages[j].content

\* C19: every step leaves the previous log as a prefix of the new log.
C19_LogAppendOnly ==
  [][/\ Len(messages') >= Len(messages)
     /\ SubSeq(messages', 1, Len(messages)) = messages]_vars

\* The log starts with the welcome message and has since taken a user
\* message, a cancellation notice, a reminder for a task created by a confirm,
\* and the reply to that confirm's follow-up.
C19_Witness ==
  /\ op.name = "confirmResolved"
  /\ messages[1] = Welcome
  /\ \E i \in 1..Len(messages) : messages[i].role = "user"
  /\ \E i \in 1..Len(messages) : messages[i].content.tpl = "actionCancelled"
  /\ \E i \in 1..Len(messages) :
       /\ messages[i].content.tpl = "taskReminder"
       /\ messages[i].content.title = "Water plants"

\* The pending action still set is one handleConfirm has already committed:
\* its follow-up call is outstanding.
PendingAlreadyCommitted ==
  /\ pendingActionType # NullType
  /\ \E c \in inflight :
       /\ c.call = "confirm"
       /\ functionResults[c.n].id = pendingFunctionCall.id

\* The oracle was sent both a commit result and a cancellation for fc.
AnsweredBothWays(fc) ==
  \E k, l \in ResultsFor(fc) :
    /\ functionResults[k].result = [tpl |-> "userCancelled"]
    /\ functionResults[l].result # [tpl |-> "userCancelled"]

\* C20: neither handleCancel nor a second handleConfirm ever acts on a pending
\* action that handleConfirm has committed; a decision closes the dialog, and
\* handleCancel (or a handleConfirm that awaits nothing) clears the pending
\* fields at once; no intent is reported to the oracle both as committed and
\* as cancelled.
C20_ConfirmCancelExclusive ==
  /\ [](\A fc \in intents : ~AnsweredBothWays(fc))
  /\ [][(op'.name \in {"handleConfirm", "handleCancel"} /\ op'.kind # "none") =>
         /\ ~PendingAlreadyCommitted
         /\ ~showConfirmationDialog'
         /\ (op'.name = "handleCancel" \/ ~op'.awaits) =>
              pendingActionType' = NullType /\ pendingFunctionCall' = NullCall]_vars

\* A cancel was decided on a later pending action while the follow-up call of
\* a confirmed one was still outstanding.
C20_Witness ==
  /\ op.name = "handleCancel" /\ op.kind # NullType
  /\ ConfirmInFlight
  /\ Len(calendarEvents) + Len(recurringTasks) + Len(paymentHistory) + Len(goals) >= 2

\* The arguments each function declaration names, which the draft and the
\* committed record take over.
CopiedFields(type) ==
  CASE type = "event" -> {"title", "date", "time"}
    [] type = "task" -> {"title", "recurrence", "dueDate"}
    [] type = "payment" -> {"biller", "amount", "dueDate"}
    [] type = "goal" -> {"title", "description", "targetDate"}

\* The last record of the collection of `type` after the step.
NewRecord(type) ==
  CASE type = "event" -> calendarEvents'[Len(calendarEvents')]
    [] type = "task" -> recurringTasks'[Len(recurringTasks')]
    [] type = "payment" -> paymentHistory'[Len(paymentHistory')]
    [] type = "goal" -> goals'[Len(goals')]

\* C21: the draft set when a recognized intent arrives has the intent's
\* arguments, field by field, and the record a handleConfirm step appends has
\* the arguments of the pending intent and an id assigned at the commit (the
\* clock value as a string, not the draft's temporary id).
C21_DraftAndRecordCopyArguments ==
  [][\A type \in CreatingTypes :
       /\ (op'.name = "sendResolved" /\ op'.kind = type) =>
            /\ pendingActionDetails'.id = EmptyId
            /\ \A f \in CopiedFields(type) :
                 pendingActionDetails'[f] = pendingFunctionCall'.args[f]
       /\ ConfirmStepOf(type) =>
            /\ TypeOf(pendingFunctionCall.name) = type
            /\ \A f \in CopiedFields(type) :
                 NewRecord(type)[f] = pendingFunctionCall.args[f]
            /\ NewRecord(type).id = DecimalString(now)
            /\ NewRecord(type).id # EmptyId]_vars

\* The event of createCalendarEvent{Dentist, 1, 09:00} has been committed.
C21_Witness ==
  /\ op.name = "handleConfirm" /\ op.kind = "event"
  /\ Len(calendarEvents) >= 1
  /\ LET e == calendarEvents[Len(calendarEvents)]
     IN e.title = "Dentist" /\ e.date = 1 /\ e.time = "09:00" /\ e.id = DecimalString(now)


\* ---------------------------------------------------------------- C22
\* The days from local calendar day `day` to the task's due date.
DaysUntilDue(task, day) == task.dueDate - day

Qualifies(task, threshold, day) ==
  /\ ~task.completed
  /\ task.dueDate # NoDate
  /\ \/ (0 <= DaysUntilDue(task, day) /\ DaysUntilDue(task, day) <= threshold)
     \/ /\ DaysUntilDue(task, day) < 0
        /\ \/ task.lastExecutionDate = NoDate
           \/ task.lastExecutionDate < task.dueDate

Thresholds == {0, DaysThreshold}

\* C22: getUpcomingDueDates(tasks, threshold) returns exactly, in input order,
\* the tasks that are not completed, have a due date, and are either due within
\* 0..threshold days or overdue with no last execution or one strictly before
\* the due date.
C22_UpcomingIsExactlyTheQualifying ==
  \A threshold \in Thresholds :
    getUpcomingDueDates(recurringTasks, threshold, today)
      = SelectSeq(recurringTasks, LAMBDA t : Qualifies(t, threshold, today))


\* ---------------------------------------------------------------- C23
\* The step is handleCancel on a pending action that an intent created.
CancelStepOfIntent ==
  /\ op'.name = "handleCancel"
  /\ pendingActionType \in CreatingTypes
  /\ op'.kind = pendingActionType
  /\ showConfirmationDialog

\* The step sends the oracle one functionResponse for the pending call, with
\* its id and name and the result 'User cancelled the action.'.
SendsCancellation ==
  /\ functionResults' =
       Append(functionResults,
              [id |-> pendingFunctionCall.id, name |-> pendingFunctionCall.name,
               result |-> [tpl |-> "userCancelled"]])
  /\ \E c \in inflight' : c.call = "cancel" /\ inflight' = inflight \cup {c}
                          /\ c \notin inflight

\* The step resolves a cancellation follow-up: one assistant message, and no
\* further call or functionResponse.
CancelResolvesOnce ==
  op'.name = "cancelResolved" =>
    /\ \E c \in inflight : c.call = "cancel" /\ inflight' = inflight \ {c}
    /\ functionResults' = functionResults
    /\ Len(Appended) = 1
    /\ messages' = Append(messages, Appended[1])
    /\ Appended[1].role = "ai"
    /\ IF op'.kind = "error"
       THEN Appended[1].content.tpl = "actionCancelledWithError"
       ELSE Appended[1].content.tpl \in {"text", "actionCancelled"}

ToggleStepOf(name) ==
  /\ op'.name = name
  /\ op'.kind = "confirmTaskCompletion"
  /\ pendingActionType = "confirmTaskCompletion"
  /\ pendingFunctionCall.name = "toggleTaskCompletion"

\* The messages of the appended ones that are not reminders of the scanner.
AppendedByHandler ==
  SelectSeq(Appended,
            LAMBDA m : m.content.tpl \notin {"taskReminder", "goalReminder"})

\* C24: neither handleConfirm nor handleCancel on a pending action created by
\* handleToggleTaskCompletion sends the oracle a function result or starts a
\* call; confirm appends exactly one message, the result 'Task ... marked as
\* ...', and cancel exactly one, the plain 'Action cancelled.'.
C24_ToggleNeverContactsOracle ==
  [][/\ (ToggleStepOf("handleConfirm") \/ ToggleStepOf("handleCancel")) =>
          /\ UNCHANGED <<functionResults, inflight, intents>>
          /\ SubSeq(messages', 1, Len(messages)) = messages
     /\ ToggleStepOf("handleConfirm") =>
          AppendedByHandler =
            <<AI([tpl |-> "taskMarked", title |-> pendingActionDetails.title,
                  completed |-> pendingActionDetails.completed])>>
     /\ ToggleStepOf("handleCancel") =>
          Appended = <<AI([tpl |-> "actionCancelled"])>>]_vars

\* With a chat session, a toggle was confirmed: the log ends with its result
\* and the oracle has been sent nothing.
C24_Witness ==
  /\ op.name = "handleConfirm" /\ op.kind = "confirmTaskCompletion"
  /\ chatSession
  /\ messages[Len(messages)].content.tpl = "taskMarked"
  /\ functionResults = <<>>


\* ---------------------------------------------------------------- C25
\* What each slot would hold if it were written now.
Serialized ==
  [events |-> Stringify(calendarEvents), tasks |-> Stringify(recurringTasks),
   payments |-> Stringify(paymentHistory), goals |-> Stringify(goals)]

Collections == <<calendarEvents, recurringTasks, paymentHistory, goals>>

\* The handler of the step ran to its end: the collections are the ones it
\* computes, whether or not the write that followed went through.
HandlerCompleted ==
  /\ (op' # op /\ op'.name = "handleSaveEditedTask") =>
       /\ editingTask' = NullDetails
       /\ \E t \in EditedTasks(editingTask) :
            recurringTasks' = ReplaceTask(recurringTasks, t)
       /\ UNCHANGED <<calendarEvents, paymentHistory, goals>>
  /\ (op' # op /\ op'.name = "handleUpdateGoalStatus") =>
       /\ \E i \in 1..Len(goals) : goals' = UpdateStatus(goals, goals[i].id, op'.kind)
       /\ UNCHANGED <<calendarEvents, recurringTasks, paymentHistory>>
  /\ (op' # op /\ op'.name = "handleConfirm" /\ op'.kind # "none") =>
       /\ showConfirmationDialog' = FALSE
       /\ calendarEvents' = CommitEvents(pendingActionType, pendingActionDetails)
       /\ recurringTasks' = CommitTasks(pendingActionType, pendingActionDetails)
       /\ paymentHistory' = CommitPayments(pendingActionType, pendingActionDetails)
       /\ goals' = CommitGoals(pendingActionType, pendingActionDetails)

\* C25: a write that fails leaves every slot at its previous value and the
\* handler's in-memory result in place; a write that succeeds puts the whole
\* in-memory collection in its slot; and a slot never changes to anything but
\* the whole in-memory collection.
C25_FailedWriteIsContained ==
  [][/\ storageFull => storage' = storage
     /\ HandlerCompleted
     /\ \A slot \in DOMAIN storage :
          /\ (~storageFull /\ Serialized'[slot] # Serialized[slot]) =>
               storage'[slot] = Serialized'[slot]
          /\ storage'[slot] # storage[slot] => storage'[slot] = Serialized'[slot]]_vars

\* A goal was committed while the quota was exceeded, so its slot is behind;
\* space was freed and an edited task was then written in full, the goals slot
\* untouched.
C25_Witness ==
  /\ op.name = "handleSaveEditedTask"
  /\ ~storageFull
  /\ storage.tasks = Serialized.tasks
  /\ Len(goals) = 1 /\ storage.goals = <<>>


\* ---------------------------------------------------------------- C26
\* The properties of the record type each kind tag stands for (types.ts).
ShapeOf(type) ==
  CASE type = "event" -> {"id", "title", "date", "time"}
    [] type \in {"task", "confirmTaskCompletion"} ->
         {"id", "title", "recurrence", "lastExecutionDate", "dueDate", "completed"}
    [] type = "payment" -> {"id", "biller", "amount", "dueDate", "paymentDate"}
    [] type = "goal" ->
         {"id", "title", "description", "targetDate", "progress", "status",
          "creationDate"}

\* The function call that goes with each kind tag.
CallNameOf(type) ==
  CASE type = "event" -> createCalendarEventName
    [] type = "task" -> createRecurringTaskName
    [] type = "payment" -> payBillName
    [] type = "goal" -> createGoalName
    [] type = "confirmTaskCompletion" -> "toggleTaskCompletion"

C27_DialogImpliesPending ==
  showConfirmationDialog =>
    /\ pendingActionType # NullType
    /\ pendingActionDetails # NullDetails
    /\ pendingFunctionCall # NullCall


\* ---------------------------------------------------------------- C28
\* The commit results the oracle has been sent for fc.
CommitsReported(fc) ==
  {k \in ResultsFor(fc) : functionResults[k].result # [tpl |-> "userCancelled"]}

\* The records the step added, over the four collections.
RecordsAdded ==
  (Len(calendarEvents') - Len(calendarEvents))
    + (Len(recurringTasks') - Len(recurringTasks))
    + (Len(paymentHistory') - Len(paymentHistory))
    + (Len(goals') - Len(goals))

\* C28: a pending event, task, payment or goal is committed at most once: a
\* handleConfirm step adds one record, never acts on a pending action whose
\* commit is still awaiting its follow-up, and clears the pending action at
\* once when it awaits nothing; no intent has two commits reported.
C28_CommittedAtMostOnce ==
  /\ [](\A fc \in intents : Cardinality(CommitsReported(fc)) <= 1)
  /\ [][\A type \in CreatingTypes :
          ConfirmStepOf(type) =>
            /\ RecordsAdded = 1
            /\ \A c \in inflight :
                 c.call = "confirm" =>
                   functionResults[c.n].id # pendingFunctionCall.id
            /\ IF op'.awaits
               THEN \E c \in inflight' \ inflight :
                      functionResults'[c.n].id = pendingFunctionCall.id
               ELSE pendingFunctionCall' = NullCall]_vars

\* handleConfirm ran again, on a second intent, while the follow-up call of the
\* first commit was still outstanding.
C28_Witness ==
  /\ op.name = "handleConfirm" /\ op.kind \in CreatingTypes
  /\ Cardinality({c \in inflight : c.call = "confirm"}) = 2


\* ---------------------------------------------------------------- C29
\* Every oracle call has returned or failed and no dialog awaits the user.
NothingOutstanding == inflight = {} /\ ~showConfirmationDialog

\* The user message at position i has an assistant message after it that is a
\* reply, a notice or a result (not a reminder of the scanner).
Answered(i) ==
  \E j \in (i + 1)..Len(messages) :
    /\ messages[j].role = "ai"
    /\ messages[j].content.tpl \notin {"taskReminder", "goalReminder"}

\* C29: once every oracle call has returned or failed and every dialog has
\* been confirmed or cancelled, every user message sendMessage accepted is
\* followed in the log by at least one assistant message.
C29_EveryUserMessageAnswered ==
  NothingOutstanding =>
    \A i \in 1..Len(messages) : messages[i].role = "user" => Answered(i)


\* ---------------------------------------------------------------- C30
\* The step is the status select of one goal row set to `status`.
StatusStepOf(status) ==
  op' # op /\ op'.name = "handleUpdateGoalStatus" /\ op'.kind = status

\* C30: every goal has progress 0 in every state, and a handleUpdateGoalStatus
\* step changes the status of one goal, the one selected, and nothing else:
\* no other field, no other goal, not the number of goals.
C30_OnlyStatusOfOneGoalChanges ==
  /\ [](\A i \in 1..Len(goals) : goals[i].progress = 0)
  /\ [][\A status \in GoalStatuses :
          StatusStepOf(status) =>
            \E i \in 1..Len(goals) : goals' = [goals EXCEPT ![i].status = status]]_vars

====
